---------------------------- MODULE Spec2Model ----------------------------
(***************************************************************************)
(* PhotoFilter (DeclutterAI): the local analysis service                   *)
(* (src/services/geminiService.ts) and the React state of the App          *)
(* component (src/App.tsx).                                                *)
(*                                                                         *)
(* Numbers: JavaScript doubles are modelled by exact rationals <<n, d>>    *)
(* (d > 0, lowest terms); rounding of the floating-point operations is     *)
(* not modelled.  Strings that the code inspects (file names) are tuples   *)
(* of one-character strings, so that toLowerCase and includes are          *)
(* computed.                                                               *)
(***************************************************************************)
EXTENDS Integers, Sequences, FiniteSets, TLC

(***************************************************************************)
(* Bounds of the model.                                                    *)
(***************************************************************************)
\* columns compared per row of the dHash grid (8 in the source: x < 8)
HashCols == 3
\* rows of the dHash grid (8 in the source: y < 8)
HashRows == 2
\* width of the analysis canvas in pixels (320 in the source)
AnalysisWidth == 4
\* files of one upload in the App specification
MaxFiles == 3
\* user actions (uploads and clicks) in one behaviour of the App specification
MaxClicks == 5
\* files of one upload in the batch specification
MaxBatchFiles == 6
\* candidates beyond the look-ahead constant in the window specification
WindowSlack == 2
\* candidates of one call in the detectDuplicates specification
MaxDetect == 3
\* length of the hashes in the Hamming distance specification
MaxHammingLen == 4

(***************************************************************************)
(* Program constants.                                                      *)
(***************************************************************************)
BATCH_SIZE == 5
LOOK_AHEAD == 50
HAMMING_THRESHOLD == 5
SMALL_FILE_KB == 150
SHARPNESS_STRIDE == 4

(***************************************************************************)
(* Rationals.                                                              *)
(***************************************************************************)
RECURSIVE GCD(_, _)
GCD(a, b) == IF b = 0 THEN a ELSE GCD(b, a % b)

Abs(x) == IF x < 0 THEN -x ELSE x

Rat(n, d) ==
    LET g == GCD(Abs(n), d) IN <<n \div g, d \div g>>

RLess(a, b) == a[1] * b[2] < b[1] * a[2]

RLeq(a, b) == a[1] * b[2] <= b[1] * a[2]

RAdd(a, b) ==
    LET g == GCD(a[2], b[2])
        l == (a[2] \div g) * b[2]
    IN Rat(a[1] * (l \div a[2]) + b[1] * (l \div b[2]), l)

RSub(a, b) == RAdd(a, <<-b[1], b[2]>>)

RMul(a, b) ==
    LET g1 == GCD(Abs(a[1]), b[2])
        g2 == GCD(Abs(b[1]), a[2])
    IN Rat((a[1] \div g1) * (b[1] \div g2), (a[2] \div g2) * (b[2] \div g1))

RMin(a, b) == IF RLess(b, a) THEN b ELSE a

RMax(a, b) == IF RLess(a, b) THEN b ELSE a

RZero == <<0, 1>>

ROne == <<1, 1>>

(***************************************************************************)
(* Strings: String.prototype.toLowerCase and String.prototype.includes.    *)
(***************************************************************************)
\* the sequence f, built once
Tuple(f) == f \o <<>>

UpperChars == <<"A", "B", "C", "D", "E", "F", "G", "H", "I", "J", "K", "L", "M",
                "N", "O", "P", "Q", "R", "S", "T", "U", "V", "W", "X", "Y", "Z">>

LowerChars == <<"a", "b", "c", "d", "e", "f", "g", "h", "i", "j", "k", "l", "m",
                "n", "o", "p", "q", "r", "s", "t", "u", "v", "w", "x", "y", "z">>

ToLowerChar(c) ==
    IF \E i \in 1..26 : UpperChars[i] = c
    THEN LowerChars[CHOOSE i \in 1..26 : UpperChars[i] = c]
    ELSE c

ToLowerCase(s) == Tuple([i \in 1..Len(s) |-> ToLowerChar(s[i])])

Includes(s, sub) ==
    \E i \in 1..(Len(s) - Len(sub) + 1) : SubSeq(s, i, i + Len(sub) - 1) = sub

STR_screenshot == <<"s", "c", "r", "e", "e", "n", "s", "h", "o", "t">>

STR_screen_recording ==
    <<"s", "c", "r", "e", "e", "n", "_", "r", "e", "c", "o", "r", "d", "i", "n", "g">>

STR_screen == <<"s", "c", "r", "e", "e", "n">>

(***************************************************************************)
(* Files and decoded images.                                               *)
(*                                                                         *)
(* A File is a record                                                      *)
(*   mime     "image" | "video" | "other"  (the prefix of File.type)       *)
(*   name     the file name, a tuple of characters                         *)
(*   size     bytes                                                        *)
(*   lastModified                                                          *)
(*   decode   "ok": the image loads and a 2d context is obtained;          *)
(*            "fail": img.onerror fires, loadImage rejects;                *)
(*            "noctx": the image loads, canvas.getContext('2d') is null    *)
(*   width, height   the dimensions of the decoded image                   *)
(*   scene    what drawImage leaves on the analysis canvas                 *)
(*   thumb    what drawImage leaves on the dHash canvas                    *)
(***************************************************************************)
Scenes == {"black", "white", "gray", "checker", "soft", "faint", "fine", "red"}

Gray(v) == <<v, v, v>>

\* the RGB of pixel p (raster order) of the analysis canvas
PixelAt(scene, p) ==
    CASE scene = "black" -> Gray(0)
      [] scene = "white" -> Gray(255)
      [] scene = "gray" -> Gray(128)
      [] scene = "checker" -> IF p % 2 = 0 THEN Gray(0) ELSE Gray(255)
      [] scene = "soft" -> IF p % 2 = 0 THEN Gray(120) ELSE Gray(126)
      [] scene = "faint" -> IF p % 2 = 0 THEN Gray(127) ELSE Gray(129)
      [] scene = "fine" -> IF p % 2 = 0 THEN Gray(126) ELSE Gray(129)
      [] scene = "red" -> <<255, 0, 0>>

\* ctx.getImageData(0, 0, w, h) throws IndexSizeError when w or h is 0
GetImageDataThrows(w, h) == w = 0 \/ h = 0

\* the pixels ctx.getImageData(0, 0, w, h) returns, by pixel index
GetImageData(scene, w, h) == [p \in 0..(w * h - 1) |-> PixelAt(scene, p)]

RGBSum(px) == px[1] + px[2] + px[3]

\* the loop of calculateSharpness from pixel p on: <<sum * 3, count>>
RECURSIVE SharpnessLoop(_, _, _)
SharpnessLoop(data, n, p) ==
    IF p >= n
    THEN <<0, 0>>
    ELSE LET rest == SharpnessLoop(data, n, p + SHARPNESS_STRIDE)
         IN IF p + 1 < n
            THEN <<rest[1] + Abs(RGBSum(data[p]) - RGBSum(data[p + 1])), rest[2] + 1>>
            ELSE rest

calculateSharpness(scene, w, h) ==
    IF GetImageDataThrows(w, h)
    THEN RZero
    ELSE LET r == SharpnessLoop(GetImageData(scene, w, h), w * h, 0)
         IN IF r[2] > 0 THEN Rat(r[1], 3 * r[2]) ELSE RZero

\* the loop of calculateExposureScore from pixel p on: totalLuma * 1000
RECURSIVE LumaLoop(_, _, _)
LumaLoop(data, n, p) ==
    IF p >= n
    THEN 0
    ELSE 299 * data[p][1] + 587 * data[p][2] + 114 * data[p][3]
         + LumaLoop(data, n, p + 1)

\* an exposure that is 0 when the pixels cannot be read
calculateExposureScoreZeroOnThrow(scene, w, h) ==
    IF GetImageDataThrows(w, h)
    THEN RZero
    ELSE LET data == GetImageData(scene, w, h)
             avgLuma == Rat(LumaLoop(data, w * h, 0), 1000 * (w * h))
             d == RSub(<<128, 1>>, avgLuma)
             dist == <<Abs(d[1]), d[2]>>
         IN RMax(RZero, RSub(ROne, RMul(dist, <<1, 128>>)))

calculateExposureScore(scene, w, h) ==
    IF GetImageDataThrows(w, h)
    THEN <<1, 2>>
    ELSE LET data == GetImageData(scene, w, h)
             avgLuma == Rat(LumaLoop(data, w * h, 0), 1000 * (w * h))
             d == RSub(<<128, 1>>, avgLuma)
             dist == <<Abs(d[1]), d[2]>>
         IN RMax(RZero, RSub(ROne, RMul(dist, <<1, 128>>)))

ZeroQuality ==
    [sharpness |-> RZero, exposure |-> RZero, resolution |-> RZero,
     total |-> RZero, details |-> <<>>]

\* Number.prototype.toFixed(1) of a non-negative rational, in tenths
ToFixed1(r) == (2 * 10 * r[1] + r[2]) \div (2 * r[2])

\* h = Math.floor(img.height * (w / img.width))
CanvasHeight(file) == (file.height * AnalysisWidth) \div file.width

QualityDetails(normSharpness, exposure, resolution) ==
    (IF RLess(<<7, 10>>, normSharpness) THEN <<"Very Sharp">>
     ELSE IF RLess(normSharpness, <<3, 10>>) THEN <<"Blurry">> ELSE <<>>)
    \o (IF RLess(<<8, 10>>, exposure) THEN <<"Good Exposure">>
        ELSE IF RLess(exposure, <<4, 10>>) THEN <<"Poor Exposure">> ELSE <<>>)
    \o << <<ToFixed1(resolution), "MP">> >>

WeightedTotal(normSharpness, exposure, normRes) ==
    RAdd(RAdd(RMul(normSharpness, <<6, 10>>), RMul(exposure, <<2, 10>>)),
         RMul(normRes, <<2, 10>>))

\* a normalisation that is not cut off at 1
NormalizeSharpnessUnclamped(sharpness) ==
    RMax(RMul(RSub(sharpness, <<2, 1>>), <<1, 6>>), RZero)

NormalizeSharpness(sharpness) ==
    RMin(RMax(RMul(RSub(sharpness, <<2, 1>>), <<1, 6>>), RZero), ROne)

NormalizeResolution(resolution) ==
    RMin(RMax(RMul(RSub(resolution, <<2, 1>>), <<1, 10>>), RZero), ROne)

calculateImageQuality(file) ==
    IF file.decode # "ok"
    THEN ZeroQuality
    ELSE LET w == AnalysisWidth
             h == CanvasHeight(file)
             sharpness == calculateSharpness(file.scene, w, h)
             exposure == calculateExposureScore(file.scene, w, h)
             resolution == Rat(file.width * file.height, 1000000)
             normSharpness == NormalizeSharpness(sharpness)
             normRes == NormalizeResolution(resolution)
         IN [sharpness |-> normSharpness,
             exposure |-> exposure,
             resolution |-> normRes,
             total |-> WeightedTotal(normSharpness, exposure, normRes),
             details |-> QualityDetails(normSharpness, exposure, resolution)]

(***************************************************************************)
(* Classification.                                                         *)
(***************************************************************************)
KEEP == "KEEP"

DISCARD == "DISCARD"

UNSURE == "UNSURE"

PENDING == "PENDING"

Result(category, confidence, reason, tags) ==
    [category |-> category, confidence |-> confidence, reason |-> reason, tags |-> tags]

AnalysisFailed == Result(UNSURE, 0, "Analysis failed", <<"Error">>)

\* the metadata rules with the size rule ahead of the filename rule
MetadataHeuristicsSizeFirst(file) ==
    LET name == ToLowerCase(file.name)
    IN IF file.size < SMALL_FILE_KB * 1024
       THEN <<Result(DISCARD, 85, "Low resolution (small file size)", <<"Small">>)>>
       ELSE IF Includes(name, STR_screenshot) \/ Includes(name, STR_screen_recording)
       THEN <<Result(DISCARD, 98, "Filename indicates a screenshot", <<"Screenshot">>)>>
       ELSE <<>>

\* the metadata rules of analyzeImage: <<result>>, or <<>> when neither applies
MetadataHeuristics(file) ==
    LET name == ToLowerCase(file.name)
    IN IF Includes(name, STR_screenshot) \/ Includes(name, STR_screen_recording)
       THEN <<Result(DISCARD, 98, "Filename indicates a screenshot", <<"Screenshot">>)>>
       ELSE IF file.size < SMALL_FILE_KB * 1024
       THEN <<Result(DISCARD, 85, "Low resolution (small file size)", <<"Small">>)>>
       ELSE <<>>

\* the visual rules of analyzeImage on a loaded image with a context
VisualAnalysis(file) ==
    LET w == AnalysisWidth
        h == CanvasHeight(file)
        ratio == Rat(file.width, file.height)
        sharpness == calculateSharpness(file.scene, w, h)
    IN IF RLess(ratio, <<48, 100>>) \/ RLess(<<22, 10>>, ratio)
       THEN Result(DISCARD, 80, "Unusual aspect ratio", <<"Aspect">>)
       ELSE IF RLess(sharpness, <<25, 10>>)
       THEN Result(DISCARD, 75, "Image appears blurry", <<"Blurry">>)
       ELSE Result(KEEP, 65, "Standard image resolution", <<"Image">>)

\* how a try block ends: with the value it returns, or with a throw
Returned(value) == [threw |-> FALSE, value |-> <<value>>]

Thrown == [threw |-> TRUE, value |-> <<>>]

\* loadImage rejects, or getContext('2d') gives null
VisualAnalysisThrows(file) == file.decode # "ok"

\* the try block of analyzeImage
AnalyzeTry(file) ==
    LET meta == MetadataHeuristics(file)
    IN IF meta # <<>>
       THEN Returned(meta[1])
       ELSE IF VisualAnalysisThrows(file)
       THEN Thrown
       ELSE Returned(VisualAnalysis(file))

\* analyzeImage without its catch: a throw of the try block reaches the caller
analyzeImageNoCatch(file) == AnalyzeTry(file)

\* analyzeImage: the try block, and the catch that returns the failure result
analyzeImage(file) ==
    IF AnalyzeTry(file).threw THEN Returned(AnalysisFailed) ELSE AnalyzeTry(file)

\* a video branch that looks for "screen" in the name as it is written
VideoAnalysisCaseSensitive(name) ==
    LET isScreenRec == Includes(name, STR_screen)
    IN Result(IF isScreenRec THEN DISCARD ELSE KEEP,
              85,
              IF isScreenRec THEN "Screen Recording Detected" ELSE "Video content",
              <<"Video">>)

\* the video branch of startProcessing
VideoAnalysis(name) ==
    LET isScreenRec == Includes(ToLowerCase(name), STR_screen)
    IN Result(IF isScreenRec THEN DISCARD ELSE KEEP,
              85,
              IF isScreenRec THEN "Screen Recording Detected" ELSE "Video content",
              <<"Video">>)

\* the try block of one task of startProcessing, after the item is marked
\* 'analyzing': the analysis to store, or a throw
ProcessItem(item) ==
    IF item.type = "video" THEN Returned(VideoAnalysis(item.name)) ELSE analyzeImage(item.file)

(***************************************************************************)
(* Difference hash and Hamming distance.                                   *)
(*                                                                         *)
(* file.thumb is the set of comparisons (numbered row-major from 0) in     *)
(* which the left pixel of the dHash canvas is brighter than the right.    *)
(***************************************************************************)
HashLen == HashRows * HashCols

\* the RGB of pixel (x, y) of the (HashCols + 1) x HashRows dHash canvas
ThumbPixel(thumb, x, y) ==
    Gray(10 * Cardinality({x2 \in x..(HashCols - 1) : (y * HashCols + x2) \in thumb}))

computeDHash(file) ==
    LET data == [i \in 0..((HashCols + 1) * HashRows - 1) |->
                    ThumbPixel(file.thumb, i % (HashCols + 1), i \div (HashCols + 1))]
    IN Tuple([b \in 1..HashLen |->
                LET y == (b - 1) \div HashCols
                    x == (b - 1) % HashCols
                    iLeft == y * (HashCols + 1) + x
                    iRight == y * (HashCols + 1) + x + 1
                IN IF RGBSum(data[iLeft]) > RGBSum(data[iRight]) THEN 1 ELSE 0])

\* the loop of calculateHammingDistance from index i (0-based) on
RECURSIVE HammingLoop(_, _, _)
HammingLoop(hash1, hash2, i) ==
    IF i >= Len(hash1)
    THEN 0
    ELSE (IF i >= Len(hash2) \/ hash1[i + 1] # hash2[i + 1] THEN 1 ELSE 0)
         + HammingLoop(hash1, hash2, i + 1)

\* a distance that does not compare the first position
calculateHammingDistanceFromSecond(hash1, hash2) == HammingLoop(hash1, hash2, 1)

calculateHammingDistance(hash1, hash2) == HammingLoop(hash1, hash2, 0)

(***************************************************************************)
(* Media items.  An optional field (analysis, hash, quality) is <<>> when  *)
(* absent; analysis and quality are <<value>> when present, hash is the    *)
(* bit sequence itself (the empty string is falsy).                        *)
(***************************************************************************)
\* the MediaItem handleFileUpload builds for file f
NewItem(id, f) ==
    [id |-> id,
     file |-> f,
     type |-> IF f.mime = "video" THEN "video" ELSE "image",
     size |-> f.size,
     name |-> f.name,
     timestamp |-> f.lastModified,
     status |-> "queued",
     analysis |-> <<>>,
     hash |-> <<>>,
     quality |-> <<>>]

\* item.quality?.total || 0
TotalOf(item) == IF item.quality = <<>> THEN RZero ELSE item.quality[1].total

\* Array.prototype.sort with a comparator that is negative on the items at
\* positions j and k exactly when before[j][k]: stable, so that items the
\* comparator does not separate keep their input order. The item at input
\* position k lands behind the items that go before it and the earlier items
\* that it does not go before.
SortStable(items, before) ==
    LET n == Len(items)
        rank == Tuple([k \in 1..n |->
                         Cardinality({j \in 1..n :
                                        \/ before[j][k]
                                        \/ (j < k /\ ~before[k][j])})])
    IN Tuple([p \in 1..n |-> items[CHOOSE k \in 1..n : rank[k] = p - 1]])

\* the comparator of the first sort is negative: a.timestamp - b.timestamp < 0
TimestampBefore(items) ==
    [j \in 1..Len(items) |->
       [k \in 1..Len(items) |-> items[j].timestamp < items[k].timestamp]]

\* [...items].sort((a, b) => a.timestamp - b.timestamp)
SortByTimestamp(items) == SortStable(items, TimestampBefore(items))

\* the comparator of the group sort is negative: b's total is below a's
TotalBefore(items) ==
    [j \in 1..Len(items) |->
       [k \in 1..Len(items) |-> RLess(TotalOf(items[k]), TotalOf(items[j]))]]

\* a descending sort that is not stable: of the items with one total the later
\* comes first
SortByTotalDescLatestFirst(items) ==
    LET n == Len(items)
        reversed == Tuple([k \in 1..n |-> items[n + 1 - k]])
    IN SortStable(reversed, TotalBefore(reversed))

\* sort((a, b) => (b.quality?.total || 0) - (a.quality?.total || 0))
SortByTotalDesc(items) == SortStable(items, TotalBefore(items))

(***************************************************************************)
(* detectDuplicates.                                                       *)
(***************************************************************************)
\* !item.hash || !item.quality
NeedsCompute(item) == item.hash = <<>> \/ item.quality = <<>>

\* the hashing loop throws on this item: loadImage rejects, or ctx is null
HashingFails(item) ==
    item.type # "video" /\ NeedsCompute(item) /\ item.file.decode # "ok"

\* the item as the hashing loop leaves it
Hashed(item) ==
    IF NeedsCompute(item)
    THEN [item EXCEPT !.hash = computeDHash(item.file),
                      !.quality = <<calculateImageQuality(item.file)>>]
    ELSE item

\* a hashing loop that lets the videos through, without a hash
ProcessedItemsWithVideos(sortedItems) ==
    Tuple([k \in 1..Len(sortedItems) |->
             IF sortedItems[k].type = "video" THEN sortedItems[k] ELSE Hashed(sortedItems[k])])

\* processedItems after the hashing loop (when it does not throw)
ProcessedItems(sortedItems) ==
    LET images == SelectSeq(sortedItems, LAMBDA it : it.type # "video")
    IN Tuple([k \in 1..Len(images) |-> Hashed(images[k])])

\* const lookAhead = Math.min(processedItems.length, i + 50)
LookAheadEnd(n, i) == IF n < i + LOOK_AHEAD THEN n ELSE i + LOOK_AHEAD

\* the similarity test of the window loop
IsSimilar(current, candidate) ==
    /\ current.hash # <<>>
    /\ candidate.hash # <<>>
    /\ calculateHammingDistance(current.hash, candidate.hash) <= HAMMING_THRESHOLD

\* an inner loop body that compares the candidate with every item already in the
\* group, not with the seed alone
WindowStepTransitive(processed, current, j, st) ==
    LET candidate == processed[j + 1]
    IN IF /\ candidate.id \notin st[2]
          /\ \E m \in 1..Len(st[1]) : IsSimilar(st[1][m], candidate)
       THEN <<Append(st[1], candidate), st[2] \cup {candidate.id}>>
       ELSE st

\* the body of the inner loop at j (0-based), on <<currentGroupItems, visited>>
WindowStep(processed, current, j, st) ==
    LET candidate == processed[j + 1]
    IN IF candidate.id \notin st[2] /\ IsSimilar(current, candidate)
       THEN <<Append(st[1], candidate), st[2] \cup {candidate.id}>>
       ELSE st

\* the inner loop for (j = lo; j < hi; j++), entered at j = lo with
\* st = <<currentGroupItems, visited>>: the two after it. The range is split in
\* halves, and the state after the first half is bound to its value before the
\* second half starts, so that a long loop evaluates in shallow nesting.
RECURSIVE WindowLoop(_, _, _, _, _)
WindowLoop(processed, current, lo, hi, st) ==
    IF hi <= lo
    THEN st
    ELSE IF hi = lo + 1
         THEN WindowStep(processed, current, lo, st)
         ELSE LET mid == (lo + hi) \div 2
              IN CHOOSE after \in {WindowLoop(processed, current, mid, hi, half) :
                                     half \in {WindowLoop(processed, current, lo, mid, st)}} : TRUE

\* a group whose scoreGap is taken to the member of the lowest total
MakeGroupGapToLast(current, currentGroupItems) ==
    LET sorted == SortByTotalDesc(currentGroupItems)
    IN [id |-> <<"group", current.id>>,
        items |-> sorted,
        bestItemId |-> sorted[1].id,
        scoreGap |-> RSub(TotalOf(sorted[1]), TotalOf(sorted[Len(sorted)]))]

\* the DuplicateGroup pushed for a group of more than one item
MakeGroup(current, currentGroupItems) ==
    LET sorted == SortByTotalDesc(currentGroupItems)
        best == sorted[1]
        runnerUp == sorted[2]
    IN [id |-> <<"group", current.id>>,
        items |-> sorted,
        bestItemId |-> best.id,
        scoreGap |-> RSub(TotalOf(best), TotalOf(runnerUp))]

\* the emission test: if (currentGroupItems.length > 1)
EmitsGroup(currentGroupItems) == Len(currentGroupItems) > 1

\* an outer loop body without the test of visited: every candidate is a seed
GroupStepRevisits(processed, i, st) ==
    LET current == processed[i + 1]
        r == WindowLoop(processed, current, i + 1, LookAheadEnd(Len(processed), i),
                        <<(<<current>>), st[1] \cup {current.id}>>)
    IN <<r[2], IF EmitsGroup(r[1])
               THEN Append(st[2], MakeGroup(current, r[1]))
               ELSE st[2]>>

\* the body of the outer loop at i (0-based), on <<visited, groups>>
GroupStep(processed, i, st) ==
    LET current == processed[i + 1]
    IN IF current.id \in st[1]
       THEN st
       ELSE LET r == WindowLoop(processed, current, i + 1,
                                LookAheadEnd(Len(processed), i),
                                <<(<<current>>), st[1] \cup {current.id}>>)
            IN <<r[2], IF EmitsGroup(r[1])
                       THEN Append(st[2], MakeGroup(current, r[1]))
                       ELSE st[2]>>

\* the outer loop for (i = lo; i < hi; i++), entered at i = lo with
\* st = <<visited, groups>>: the two after it, the range split as in WindowLoop
RECURSIVE GroupLoop(_, _, _, _)
GroupLoop(processed, lo, hi, st) ==
    IF hi <= lo
    THEN st
    ELSE IF hi = lo + 1
         THEN GroupStep(processed, lo, st)
         ELSE LET mid == (lo + hi) \div 2
              IN CHOOSE after \in {GroupLoop(processed, mid, hi, half) :
                                     half \in {GroupLoop(processed, lo, mid, st)}} : TRUE

\* the promise of detectDuplicates(items): rejected, or resolved with groups
detectDuplicates(items) ==
    LET sortedItems == SortByTimestamp(items)
        processedItems == ProcessedItems(sortedItems)
    IN IF \E k \in 1..Len(sortedItems) : HashingFails(sortedItems[k])
       THEN [rejected |-> TRUE, groups |-> <<>>]
       ELSE [rejected |-> FALSE,
             groups |-> GroupLoop(processedItems, 0, Len(processedItems),
                                  <<{}, <<>>>>)[2]]

(***************************************************************************)
(* State.                                                                  *)
(*                                                                         *)
(* The useState cells of App, the position of the two asynchronous tasks   *)
(* (startProcessing, startDuplicateScan), and the probe of the             *)
(* specifications that exercise one function of the service at a time.     *)
(***************************************************************************)
VARIABLES
    mode,                  \* AppMode
    items,                 \* MediaItem[]
    selectedIds,           \* Set<string>
    activeFilter,          \* ClassificationCategory | 'ALL'
    trashBin,              \* MediaItem[]
    isProcessing,
    progress,              \* {processed, total}
    duplicateGroups,       \* DuplicateGroup[]
    isScanningDuplicates,
    procFiles,             \* filesToProcess of the running startProcessing
    procIndex,             \* its loop variable i
    procPending,           \* ids of the current batch whose task has not settled
    scanState,             \* "idle" | "running" | "rejected"
    scanItems,             \* the candidates the running scan was given
    uploads,               \* handleFileUpload calls so far
    clicks,                \* user actions so far
    probe                  \* the function under test, its input and its output

appVars ==
    <<mode, items, selectedIds, activeFilter, trashBin, isProcessing, progress,
      duplicateGroups, isScanningDuplicates, procFiles, procIndex, procPending,
      scanState, scanItems, uploads, clicks>>

vars == <<appVars, probe>>

NoProbe == [fn |-> "none"]

\* the state of App after its first render
AppInit ==
    /\ mode = "LANDING"
    /\ items = <<>>
    /\ selectedIds = {}
    /\ activeFilter = "ALL"
    /\ trashBin = <<>>
    /\ isProcessing = FALSE
    /\ progress = [processed |-> 0, total |-> 0]
    /\ duplicateGroups = <<>>
    /\ isScanningDuplicates = FALSE
    /\ procFiles = <<>>
    /\ procIndex = 0
    /\ procPending = {}
    /\ scanState = "idle"
    /\ scanItems = <<>>
    /\ uploads = 0
    /\ clicks = 0

Ids(seq) == {seq[k].id : k \in 1..Len(seq)}

\* item.analysis?.category
CategoryOf(item) == IF item.analysis = <<>> THEN "undefined" ELSE item.analysis[1].category

(***************************************************************************)
(* startProcessing.                                                        *)
(***************************************************************************)
\* a slice one longer than the batch size
BatchOfSix(files, i) ==
    SubSeq(files, i + 1, IF Len(files) < i + 6 THEN Len(files) ELSE i + 6)

\* filesToProcess.slice(i, i + BATCH_SIZE)
Batch(files, i) ==
    SubSeq(files, i + 1, IF Len(files) < i + BATCH_SIZE THEN Len(files) ELSE i + BATCH_SIZE)

\* setItems(prev => prev.map(it => it.id === item.id ? {...it, status: 'analyzing'} : it))
\* for every item of the batch
MarkAnalyzing(prev, batch) ==
    Tuple([k \in 1..Len(prev) |->
             IF prev[k].id \in Ids(batch)
             THEN [prev[k] EXCEPT !.status = "analyzing"]
             ELSE prev[k]])

\* a task that stores the analysis and leaves the status as it is
SettledKeepsStatus(it, outcome) ==
    IF outcome.threw
    THEN [it EXCEPT !.status = "error"]
    ELSE [it EXCEPT !.analysis = outcome.value]

\* the item after its task: {...it, status: 'done', analysis}, or from the catch
\* {...it, status: 'error'}
Settled(it, outcome) ==
    IF outcome.threw
    THEN [it EXCEPT !.status = "error"]
    ELSE [it EXCEPT !.status = "done", !.analysis = outcome.value]

\* setItems(prev => prev.map(it => it.id === item.id ? ... : it)) at the end of the task
MarkDone(prev, item) ==
    Tuple([k \in 1..Len(prev) |->
             IF prev[k].id = item.id
             THEN Settled(prev[k], ProcessItem(item))
             ELSE prev[k]])

\* the end of startProcessing, after the loop
ProcessingEnds ==
    /\ isProcessing' = FALSE
    /\ mode' = "REVIEW"
    /\ activeFilter' = DISCARD

\* the media files of a selection become the items: the filter and map of handleFileUpload
NewFiles(files, gen) ==
    LET media == SelectSeq(files, LAMBDA f : f.mime = "image" \/ f.mime = "video")
    IN Tuple([k \in 1..Len(media) |-> NewItem(gen * 10 + k, media[k])])

\* an upload that shows the review interface at once
AfterUploadReview == "REVIEW"

\* setMode(AppMode.SCANNING): the progress screen, which has nothing to click
AfterUpload == "SCANNING"

\* handleFileUpload with the files chosen, and startProcessing up to its first await
HandleFileUpload(files) ==
    /\ mode = "LANDING"
    /\ Len(files) > 0
    /\ uploads' = uploads + 1
    /\ LET newFiles == NewFiles(files, uploads + 1)
           batch == Batch(newFiles, 0)
       IN /\ progress' = [processed |-> 0, total |-> Len(newFiles)]
          /\ procFiles' = newFiles
          /\ procIndex' = 0
          /\ procPending' = Ids(batch)
          /\ items' = MarkAnalyzing(newFiles, batch)
          /\ IF newFiles = <<>>
             THEN ProcessingEnds
             ELSE /\ isProcessing' = TRUE
                  /\ mode' = AfterUpload
                  /\ UNCHANGED activeFilter
    /\ UNCHANGED <<selectedIds, trashBin, duplicateGroups, isScanningDuplicates,
                   scanState, scanItems, probe>>

\* one task of the current batch settles; after the last one Promise.all resolves
\* and the loop starts the next batch or ends
TaskSettles(id) ==
    /\ id \in procPending
    /\ LET item == procFiles[CHOOSE k \in 1..Len(procFiles) : procFiles[k].id = id]
           done == MarkDone(items, item)
           next == procIndex + BATCH_SIZE
           batch == Batch(procFiles, next)
       IN /\ progress' = [progress EXCEPT !.processed = progress.processed + 1]
          /\ IF procPending # {id}
             THEN /\ items' = done
                  /\ procPending' = procPending \ {id}
                  /\ UNCHANGED <<procIndex, isProcessing, mode, activeFilter>>
             ELSE IF next < Len(procFiles)
             THEN /\ items' = MarkAnalyzing(done, batch)
                  /\ procIndex' = next
                  /\ procPending' = Ids(batch)
                  /\ UNCHANGED <<isProcessing, mode, activeFilter>>
             ELSE /\ items' = done
                  /\ procIndex' = next
                  /\ procPending' = {}
                  /\ ProcessingEnds
    /\ UNCHANGED <<selectedIds, trashBin, duplicateGroups, isScanningDuplicates,
                   procFiles, scanState, scanItems, uploads, clicks, probe>>

(***************************************************************************)
(* The duplicate scan.                                                     *)
(***************************************************************************)
\* items.filter(i => i.analysis?.category !== ClassificationCategory.DISCARD)
Candidates(its) == SelectSeq(its, LAMBDA i : CategoryOf(i) # DISCARD)

\* detectDuplicates reaches an await: some candidate is not a video
ScanAwaits(candidates) == \E k \in 1..Len(candidates) : candidates[k].type # "video"

\* the useEffect on [mode]: the condition under which it calls startDuplicateScan
EffectStartsScan(newMode) ==
    newMode = "DUPLICATES" /\ Len(duplicateGroups) = 0 /\ ~isScanningDuplicates

\* startDuplicateScan up to the first await that yields to the event loop
StartDuplicateScan ==
    LET candidates == Candidates(items)
    IN IF ScanAwaits(candidates)
       THEN /\ isScanningDuplicates' = TRUE
            /\ scanState' = "running"
            /\ scanItems' = candidates
            /\ UNCHANGED duplicateGroups
       ELSE /\ duplicateGroups' = detectDuplicates(candidates).groups
            /\ isScanningDuplicates' = FALSE
            /\ UNCHANGED <<scanState, scanItems>>

\* detectDuplicates resolves: setDuplicateGroups(groups); setIsScanningDuplicates(false)
ScanResolves ==
    /\ scanState = "running"
    /\ LET r == detectDuplicates(scanItems)
       IN /\ ~r.rejected
          /\ duplicateGroups' = r.groups
    /\ isScanningDuplicates' = FALSE
    /\ scanState' = "idle"
    /\ scanItems' = <<>>
    /\ UNCHANGED <<mode, items, selectedIds, activeFilter, trashBin, isProcessing,
                   progress, procFiles, procIndex, procPending, uploads, clicks, probe>>

\* detectDuplicates rejects: startDuplicateScan ends at its await, nothing is set
ScanRejects ==
    /\ scanState = "running"
    /\ detectDuplicates(scanItems).rejected
    /\ scanState' = "rejected"
    /\ scanItems' = <<>>
    /\ UNCHANGED <<mode, items, selectedIds, activeFilter, trashBin, isProcessing,
                   progress, duplicateGroups, isScanningDuplicates, procFiles, procIndex,
                   procPending, uploads, clicks, probe>>

(***************************************************************************)
(* The review interface.                                                   *)
(***************************************************************************)
\* the header and the sidebar can be clicked
MainInterface == mode \in {"REVIEW", "DUPLICATES"}

\* the grid with its toolbar can be clicked
GridView == mode = "REVIEW"

filteredItems ==
    IF activeFilter = "ALL"
    THEN items
    ELSE SelectSeq(items, LAMBDA item : CategoryOf(item) = activeFilter)

\* the back arrow of the header
GoLanding ==
    /\ MainInterface
    /\ mode' = "LANDING"
    /\ UNCHANGED <<items, selectedIds, activeFilter, trashBin, isProcessing, progress,
                   duplicateGroups, isScanningDuplicates, procFiles, procIndex,
                   procPending, scanState, scanItems, uploads, probe>>

\* the trash button of the header
OpenTrash ==
    /\ MainInterface
    /\ mode' = "TRASH"
    /\ UNCHANGED <<items, selectedIds, activeFilter, trashBin, isProcessing, progress,
                   duplicateGroups, isScanningDuplicates, procFiles, procIndex,
                   procPending, scanState, scanItems, uploads, probe>>

\* a filter button of the sidebar
SetFilter(f) ==
    /\ MainInterface
    /\ mode' = "REVIEW"
    /\ activeFilter' = f
    /\ <<mode, activeFilter>> # <<"REVIEW", f>>
    /\ UNCHANGED <<items, selectedIds, trashBin, isProcessing, progress,
                   duplicateGroups, isScanningDuplicates, procFiles, procIndex,
                   procPending, scanState, scanItems, uploads, probe>>

\* the Duplicates button of the sidebar, and the effect that the change of mode runs
GoDuplicates ==
    /\ mode = "REVIEW"
    /\ mode' = "DUPLICATES"
    /\ IF EffectStartsScan("DUPLICATES")
       THEN StartDuplicateScan
       ELSE UNCHANGED <<duplicateGroups, isScanningDuplicates, scanState, scanItems>>
    /\ UNCHANGED <<items, selectedIds, activeFilter, trashBin, isProcessing, progress,
                   procFiles, procIndex, procPending, uploads, probe>>

toggleSelection(id) ==
    /\ GridView
    /\ id \in Ids(filteredItems)
    /\ selectedIds' = IF id \in selectedIds THEN selectedIds \ {id} ELSE selectedIds \cup {id}
    /\ UNCHANGED <<mode, items, activeFilter, trashBin, isProcessing, progress,
                   duplicateGroups, isScanningDuplicates, procFiles, procIndex,
                   procPending, scanState, scanItems, uploads, probe>>

selectAllInView ==
    /\ GridView
    /\ LET visibleIds == Ids(filteredItems)
           allSelected == \A id \in visibleIds : id \in selectedIds
       IN selectedIds' = IF allSelected
                         THEN selectedIds \ visibleIds
                         ELSE selectedIds \cup visibleIds
    /\ selectedIds' # selectedIds
    /\ UNCHANGED <<mode, items, activeFilter, trashBin, isProcessing, progress,
                   duplicateGroups, isScanningDuplicates, procFiles, procIndex,
                   procPending, scanState, scanItems, uploads, probe>>

\* duplicateGroups.map(g => ({...g, items: g.items.filter(i => !trashedIds.has(i.id))}))
WithoutTrashed(groups, trashedIds) ==
    Tuple([k \in 1..Len(groups) |->
             [groups[k] EXCEPT !.items =
                SelectSeq(groups[k].items, LAMBDA i : i.id \notin trashedIds)]])

\* a cleanup that keeps every group, whatever is left of it
CleanupGroupsKeepAll(groups, trashedIds) == WithoutTrashed(groups, trashedIds)

\* the cleanup of the duplicate groups in moveToTrash
CleanupGroups(groups, trashedIds) ==
    SelectSeq(WithoutTrashed(groups, trashedIds), LAMBDA g : Len(g.items) > 1)

moveToTrash ==
    /\ GridView
    /\ Cardinality(selectedIds) > 0
    /\ LET itemsToTrash == SelectSeq(items, LAMBDA i : i.id \in selectedIds)
           remainingItems == SelectSeq(items, LAMBDA i : i.id \notin selectedIds)
       IN /\ trashBin' = trashBin \o itemsToTrash
          /\ items' = remainingItems
          /\ selectedIds' = {}
          /\ IF Len(duplicateGroups) > 0
             THEN duplicateGroups' = CleanupGroups(duplicateGroups, Ids(itemsToTrash))
             ELSE UNCHANGED duplicateGroups
    /\ UNCHANGED <<mode, activeFilter, isProcessing, progress, isScanningDuplicates,
                   procFiles, procIndex, procPending, scanState, scanItems, uploads, probe>>

resolveDuplicateGroup(group) ==
    /\ mode = "DUPLICATES"
    /\ LET toTrash == SelectSeq(group.items, LAMBDA i : i.id # group.bestItemId)
           toTrashIds == Ids(toTrash)
       IN /\ trashBin' = trashBin \o toTrash
          /\ items' = SelectSeq(items, LAMBDA i : i.id \notin toTrashIds)
          /\ duplicateGroups' = SelectSeq(duplicateGroups, LAMBDA g : g.id # group.id)
    /\ UNCHANGED <<mode, selectedIds, activeFilter, isProcessing, progress,
                   isScanningDuplicates, procFiles, procIndex, procPending, scanState,
                   scanItems, uploads, probe>>

\* a preview that also offers Pending
OverrideCategoriesWithPending == {KEEP, UNSURE, DISCARD, PENDING}

\* the categories the three buttons of PreviewModal pass to onCategoryChange
OverrideCategories == {KEEP, UNSURE, DISCARD}

\* opening the preview of a card of the grid and clicking one of its buttons
changeCategory(id, newCategory) ==
    /\ GridView
    /\ id \in Ids(filteredItems)
    /\ items' = Tuple([k \in 1..Len(items) |->
                         IF items[k].id = id /\ items[k].analysis # <<>>
                         THEN [items[k] EXCEPT !.analysis[1].category = newCategory]
                         ELSE items[k]])
    /\ UNCHANGED <<mode, selectedIds, activeFilter, trashBin, isProcessing, progress,
                   duplicateGroups, isScanningDuplicates, procFiles, procIndex,
                   procPending, scanState, scanItems, uploads, probe>>

\* the X of the trash overlay
CloseTrash ==
    /\ mode = "TRASH"
    /\ mode' = "REVIEW"
    /\ UNCHANGED <<items, selectedIds, activeFilter, trashBin, isProcessing, progress,
                   duplicateGroups, isScanningDuplicates, procFiles, procIndex,
                   procPending, scanState, scanItems, uploads, probe>>

RestoreAll ==
    /\ mode = "TRASH"
    /\ items' = items \o trashBin
    /\ trashBin' = <<>>
    /\ mode' = "REVIEW"
    /\ UNCHANGED <<selectedIds, activeFilter, isProcessing, progress,
                   duplicateGroups, isScanningDuplicates, procFiles, procIndex,
                   procPending, scanState, scanItems, uploads, probe>>

\* Empty Trash, confirmed; the button is disabled while the bin is empty
EmptyTrash ==
    /\ mode = "TRASH"
    /\ Len(trashBin) > 0
    /\ trashBin' = <<>>
    /\ UNCHANGED <<mode, items, selectedIds, activeFilter, isProcessing, progress,
                   duplicateGroups, isScanningDuplicates, procFiles, procIndex,
                   procPending, scanState, scanItems, uploads, probe>>

(***************************************************************************)
(* The files the specifications draw their inputs from.                    *)
(***************************************************************************)
File(mime, name, size, lastModified, decode, width, height, scene, thumb) ==
    [mime |-> mime, name |-> name, size |-> size, lastModified |-> lastModified,
     decode |-> decode, width |-> width, height |-> height, scene |-> scene,
     thumb |-> thumb]

\* "photo.jpg"
NAME_photo == <<"p", "h", "o", "t", "o", ".", "j", "p", "g">>

\* "IMG_screenshot_01.png"
NAME_screenshot == <<"I", "M", "G", "_", "s", "c", "r", "e", "e", "n", "s", "h", "o", "t", "_", "0", "1", ".", "p", "n", "g">>

\* "Screenshot.PNG"
NAME_Screenshot == <<"S", "c", "r", "e", "e", "n", "s", "h", "o", "t", ".", "P", "N", "G">>

\* "My_Screen_Recording.gif"
NAME_Recording == <<"M", "y", "_", "S", "c", "r", "e", "e", "n", "_", "R", "e", "c", "o", "r", "d", "i", "n", "g", ".", "g", "i", "f">>

\* "screen_capture.mov"
NAME_screen_capture == <<"s", "c", "r", "e", "e", "n", "_", "c", "a", "p", "t", "u", "r", "e", ".", "m", "o", "v">>

\* "Screen_Rec.mov"
NAME_Screen_Rec == <<"S", "c", "r", "e", "e", "n", "_", "R", "e", "c", ".", "m", "o", "v">>

\* "clip.mp4"
NAME_clip == <<"c", "l", "i", "p", ".", "m", "p", "4">>

\* "notes.txt"
NAME_notes == <<"n", "o", "t", "e", "s", ".", "t", "x", "t">>

Names ==
    {NAME_photo, NAME_screenshot, NAME_Screenshot, NAME_Recording,
     NAME_screen_capture, NAME_Screen_Rec, NAME_clip}

\* byte sizes around the 150 KB rule
Sizes == {80000, 153599, 153600, 500000}

\* <<width, height>> of decoded images: ordinary, at and beyond the ratio limits,
\* and two strips so wide that the analysis canvas has height 0
Dimensions ==
    {<<4000, 3000>>, <<1000, 1000>>, <<8000, 6000>>, <<2200, 1000>>, <<480, 1000>>,
     <<3000, 1000>>, <<1000, 3000>>, <<10000, 30>>, <<40000, 100>>}

\* the comparisons 0 .. k-1 of the dHash canvas have the brighter pixel on the left
Prefix(k) == 0..(k - 1)

\* sequences over S of length lo .. hi
SeqsOf(S, lo, hi) == UNION {[1..n -> S] : n \in lo..hi}

(***************************************************************************)
(* The App specification: uploads from one folder, every user action.      *)
(***************************************************************************)
\* the folder: a burst of three shots, an image that does not load, a text file
AppCatalog ==
    <<File("image", NAME_photo, 500000, 10, "ok", 4000, 3000, "soft", Prefix(0)),
      File("image", NAME_photo, 500000, 11, "ok", 4000, 3000, "checker", Prefix(1)),
      File("image", NAME_photo, 500000, 12, "ok", 4000, 3000, "fine", Prefix(5)),
      File("image", NAME_photo, 500000, 13, "fail", 1, 1, "black", Prefix(0)),
      File("other", NAME_notes, 500000, 14, "fail", 1, 1, "black", Prefix(0))>>

\* the selections of 1 .. MaxFiles files of the folder, in folder order
UploadChoices ==
    {SelectSeq(AppCatalog, LAMBDA f : f \in chosen) :
        chosen \in {c \in SUBSET {AppCatalog[k] : k \in 1..Len(AppCatalog)} :
                       Cardinality(c) \in 1..MaxFiles}}

Filters == {DISCARD, UNSURE, KEEP, "ALL"}

Init == AppInit /\ probe = NoProbe

\* a user action counts against the budget of the behaviour
Click == clicks < MaxClicks /\ clicks' = clicks + 1

Next ==
    \/ Click /\ \E files \in UploadChoices : HandleFileUpload(files)
    \/ \E id \in procPending : TaskSettles(id)
    \/ ScanResolves
    \/ ScanRejects
    \/ Click /\ GoLanding
    \/ Click /\ OpenTrash
    \/ Click /\ \E f \in Filters : SetFilter(f)
    \/ Click /\ GoDuplicates
    \/ Click /\ \E id \in Ids(items) : toggleSelection(id)
    \/ Click /\ selectAllInView
    \/ Click /\ moveToTrash
    \/ Click /\ \E k \in 1..Len(duplicateGroups) : resolveDuplicateGroup(duplicateGroups[k])
    \/ Click /\ \E id \in Ids(items), c \in OverrideCategories : changeCategory(id, c)
    \/ Click /\ CloseTrash
    \/ Click /\ RestoreAll
    \/ Click /\ EmptyTrash

Spec == Init /\ [][Next]_vars

(***************************************************************************)
(* The review specification: the App when startProcessing has ended on one *)
(* upload from the folder, and every user action from there; clicks counts *)
(* the actions after the upload.                                           *)
(***************************************************************************)
\* the items of the upload when every task has settled
ReviewedItems(files) ==
    LET newFiles == NewFiles(files, 1)
    IN Tuple([k \in 1..Len(newFiles) |-> Settled(newFiles[k], ProcessItem(newFiles[k]))])

InitReview ==
    /\ \E files \in UploadChoices :
          LET n == Len(NewFiles(files, 1))
          IN /\ items = ReviewedItems(files)
             /\ procFiles = NewFiles(files, 1)
             /\ procIndex = BATCH_SIZE * ((n + BATCH_SIZE - 1) \div BATCH_SIZE)
             /\ progress = [processed |-> n, total |-> n]
    /\ mode = "REVIEW"
    /\ activeFilter = DISCARD
    /\ selectedIds = {}
    /\ trashBin = <<>>
    /\ isProcessing = FALSE
    /\ duplicateGroups = <<>>
    /\ isScanningDuplicates = FALSE
    /\ procPending = {}
    /\ scanState = "idle"
    /\ scanItems = <<>>
    /\ uploads = 1
    /\ clicks = 0
    /\ probe = NoProbe

NextReview ==
    \/ ScanResolves
    \/ ScanRejects
    \/ Click /\ GoLanding
    \/ Click /\ OpenTrash
    \/ Click /\ \E f \in Filters : SetFilter(f)
    \/ Click /\ GoDuplicates
    \/ Click /\ \E id \in Ids(items) : toggleSelection(id)
    \/ Click /\ selectAllInView
    \/ Click /\ moveToTrash
    \/ Click /\ \E k \in 1..Len(duplicateGroups) : resolveDuplicateGroup(duplicateGroups[k])
    \/ Click /\ \E id \in Ids(items), c \in OverrideCategories : changeCategory(id, c)
    \/ Click /\ CloseTrash
    \/ Click /\ RestoreAll
    \/ Click /\ EmptyTrash

SpecReview == InitReview /\ [][NextReview]_vars

(***************************************************************************)
(* The batch specification: one upload of up to MaxBatchFiles files, and   *)
(* startProcessing to its end.                                             *)
(***************************************************************************)
\* a photo and an image that does not load
BatchCatalog ==
    {File("image", NAME_photo, 500000, 10, "ok", 4000, 3000, "soft", Prefix(0)),
     File("image", NAME_photo, 500000, 11, "fail", 1, 1, "black", Prefix(0))}

BatchChoices == SeqsOf(BatchCatalog, 1, MaxBatchFiles)

NextBatch ==
    \/ Click /\ \E files \in BatchChoices : HandleFileUpload(files)
    \/ \E id \in procPending : TaskSettles(id)

SpecBatch == Init /\ [][NextBatch]_vars

(***************************************************************************)
(* The specifications of single functions: Init draws the input, the one   *)
(* action applies the function.                                            *)
(***************************************************************************)
ClassifyScenes == {"soft", "faint", "fine", "checker"}

ClassifyFiles ==
    {File(m, n, sz, 1, dec, d[1], d[2], sc, Prefix(0)) :
        m \in {"image", "video"}, n \in Names, sz \in Sizes,
        dec \in {"ok", "fail", "noctx"}, d \in Dimensions, sc \in ClassifyScenes}

InitClassify ==
    /\ AppInit
    /\ \E f \in ClassifyFiles :
          probe = [fn |-> "classify", item |-> NewItem(1, f), out |-> <<>>]

\* one task of startProcessing on the item
ApplyClassify ==
    /\ probe.fn = "classify"
    /\ probe.out = <<>>
    /\ probe' = [probe EXCEPT !.out = <<ProcessItem(probe.item)>>]
    /\ UNCHANGED appVars

SpecClassify == InitClassify /\ [][ApplyClassify]_vars

QualityFiles ==
    {File("image", NAME_photo, 500000, 1, dec, d[1], d[2], sc, Prefix(0)) :
        dec \in {"ok", "fail", "noctx"}, d \in Dimensions, sc \in Scenes}

InitQuality ==
    /\ AppInit
    /\ \E f \in QualityFiles : probe = [fn |-> "quality", file |-> f, out |-> <<>>]

ApplyQuality ==
    /\ probe.fn = "quality"
    /\ probe.out = <<>>
    /\ probe' = [probe EXCEPT !.out = <<calculateImageQuality(probe.file)>>]
    /\ UNCHANGED appVars

SpecQuality == InitQuality /\ [][ApplyQuality]_vars

\* the pairs of hashes of one length
HammingInputs ==
    UNION {[1..n -> {0, 1}] \X [1..n -> {0, 1}] : n \in 0..MaxHammingLen}

InitHamming ==
    /\ AppInit
    /\ \E ab \in HammingInputs :
          probe = [fn |-> "hamming", a |-> ab[1], b |-> ab[2], out |-> <<>>]

\* calculateHammingDistance both ways round and on each hash with itself
ApplyHamming ==
    /\ probe.fn = "hamming"
    /\ probe.out = <<>>
    /\ probe' = [probe EXCEPT !.out =
                    <<[ab |-> calculateHammingDistance(probe.a, probe.b),
                       ba |-> calculateHammingDistance(probe.b, probe.a),
                       aa |-> calculateHammingDistance(probe.a, probe.a)]>>]
    /\ UNCHANGED appVars

SpecHamming == InitHamming /\ [][ApplyHamming]_vars

\* candidates: shots of two looks and two qualities at two times, a sharper
\* shot of a third look, a video, an image that does not load
DetectFiles ==
    {File("image", NAME_photo, 500000, ts, "ok", 4000, 3000, sc, Prefix(k)) :
        ts \in {1, 2}, sc \in {"soft", "fine"}, k \in {0, 5}}
    \cup {File("image", NAME_photo, 500000, 2, "ok", 4000, 3000, "checker", Prefix(6)),
          File("video", NAME_clip, 500000, 1, "ok", 1, 1, "black", Prefix(0)),
          File("image", NAME_photo, 500000, 1, "fail", 1, 1, "black", Prefix(0))}

\* the items of the files, with ids 1, 2, ... in input order
ItemsOf(files) == Tuple([k \in 1..Len(files) |-> NewItem(k, files[k])])

InitDetect ==
    /\ AppInit
    /\ \E files \in SeqsOf(DetectFiles, 0, MaxDetect) :
          probe = [fn |-> "detect", items |-> ItemsOf(files), out |-> <<>>]

ApplyDetect ==
    /\ probe.fn = "detect"
    /\ probe.out = <<>>
    /\ probe' = [probe EXCEPT !.out = <<detectDuplicates(probe.items)>>]
    /\ UNCHANGED appVars

SpecDetect == InitDetect /\ [][ApplyDetect]_vars

\* a first shot, then shots that look different, with one more shot like the first
\* at position second (1-based): n candidates with increasing timestamps
WindowFiles(n, second) ==
    [k \in 1..n |->
        File("image", NAME_photo, 500000, k, "ok", 4000, 3000, "soft",
             IF k = 1 \/ k = second THEN Prefix(0) ELSE Prefix(6))]

InitWindow ==
    /\ AppInit
    /\ \E n \in (LOOK_AHEAD - 1)..(LOOK_AHEAD + WindowSlack) : \E second \in 2..n :
          probe = [fn |-> "detect", items |-> ItemsOf(WindowFiles(n, second)), out |-> <<>>]

SpecWindow == InitWindow /\ [][ApplyDetect]_vars

\* detectDuplicates on the short candidate lists and on the long ones together
SpecDetectWindow == (InitDetect \/ InitWindow) /\ [][ApplyDetect]_vars

\* the candidates of WindowFiles with a video put in after the first shot
WindowFilesWithVideo(n, second) ==
    LET shots == WindowFiles(n, second)
    IN Tuple([k \in 1..(n + 1) |->
                IF k = 1 THEN shots[1]
                ELSE IF k = 2 THEN File("video", NAME_clip, 500000, 1, "ok", 1, 1, "black", Prefix(0))
                ELSE shots[k - 1]])

InitVideoWindow ==
    /\ AppInit
    /\ \E n \in (LOOK_AHEAD - 1)..(LOOK_AHEAD + WindowSlack - 1) :
       \E second \in {n - 1, n} :
          probe = [fn |-> "detect", items |-> ItemsOf(WindowFilesWithVideo(n, second)),
                   out |-> <<>>]

\* the App together with the detectDuplicates specification
NextAppDetect == (probe.fn = "none" /\ Next) \/ ApplyDetect

SpecAppDetect == (Init \/ InitDetect) /\ [][NextAppDetect]_vars

\* the App, and detectDuplicates on short candidate lists and on long ones with
\* a video among them
SpecAppDetectVideo == (Init \/ InitDetect \/ InitVideoWindow) /\ [][NextAppDetect]_vars

\* the App together with the classification specification
NextAppClassify == (probe.fn = "none" /\ Next) \/ ApplyClassify

SpecAppClassify == (Init \/ InitClassify) /\ [][NextAppClassify]_vars

(***************************************************************************)
(* Properties.                                                             *)
(***************************************************************************)
\* the probe holds the result of function fn
Applied(fn) == probe.fn = fn /\ probe.out # <<>>

\* the groups a resolved detectDuplicates call returned
ReturnedGroups == IF Applied("detect") THEN probe.out[1].groups ELSE <<>>

Members(g) == {g.items[k] : k \in 1..Len(g.items)}

\* C1: every group detectDuplicates returns has at least 2 members, and so has
\* every group the App holds, also after moveToTrash has removed members.
C1_GroupsHaveTwoMembers ==
    /\ \A k \in 1..Len(ReturnedGroups) : Len(ReturnedGroups[k].items) >= 2
    /\ \A k \in 1..Len(duplicateGroups) : Len(duplicateGroups[k].items) >= 2

\* a group the App holds was cut down to two members by moveToTrash: its best
\* item is in the trash
C1_Witness ==
    \E k \in 1..Len(duplicateGroups) :
        /\ Len(duplicateGroups[k].items) = 2
        /\ duplicateGroups[k].bestItemId \notin Ids(duplicateGroups[k].items)
        /\ duplicateGroups[k].bestItemId \in Ids(trashBin)

\* x comes before y in the stable ascending-timestamp order of the candidates
\* (ids number the candidates in input order)
EarlierInTime(x, y) ==
    x.timestamp < y.timestamp \/ (x.timestamp = y.timestamp /\ x.id <= y.id)

\* C2: bestItemId is the id of a member whose total no other member exceeds, and
\* among the members with that total it is the earliest in timestamp order.
C2_BestIsMaximal ==
    \A k \in 1..Len(ReturnedGroups) :
        LET g == ReturnedGroups[k]
        IN \E best \in Members(g) :
              /\ best.id = g.bestItemId
              /\ \A x \in Members(g) : RLeq(TotalOf(x), TotalOf(best))
              /\ \A x \in Members(g) :
                    TotalOf(x) = TotalOf(best) => EarlierInTime(best, x)

\* two members tie for the maximum, and the one chosen came later in the input
C2_Witness ==
    \E k \in 1..Len(ReturnedGroups) :
        LET g == ReturnedGroups[k]
        IN \E x \in Members(g) :
              /\ x.id < g.bestItemId
              /\ \E best \in Members(g) :
                    best.id = g.bestItemId /\ TotalOf(x) = TotalOf(best)

HeldItems ==
    Members([items |-> items]) \cup Members([items |-> trashBin])
    \cup UNION {Members(duplicateGroups[k]) : k \in 1..Len(duplicateGroups)}

\* the image whose analysis reaches the decode, and the decode fails
DecodeFails(item) ==
    item.type = "image" /\ MetadataHeuristics(item.file) = <<>> /\ item.file.decode # "ok"

\* C4: an image whose decode fails is classified Unsure with confidence 0, reason
\* "Analysis failed" and tags ["Error"]; analyzeImage returns to its caller, so
\* that no item ends with status 'error'; and the batch loop goes on: while it
\* runs there is a task to wait for, and when it has ended every record of the
\* upload is done and counted.
C4_DecodeFailureIsUnsure ==
    /\ \A k \in 1..Len(items) :
          LET it == items[k]
          IN /\ it.status # "error"
             /\ it.status = "done" /\ DecodeFails(it) => it.analysis = <<AnalysisFailed>>
    /\ isProcessing => procPending # {}
    /\ mode = "REVIEW" =>
          /\ \A k \in 1..Len(items) : items[k].status = "done"
          /\ progress.processed = progress.total
          /\ Len(items) = progress.total

\* the first record of an upload of more than one batch failed to decode, and
\* the run went on to the end: the last record, in the second batch, is kept
C4_Witness ==
    /\ mode = "REVIEW"
    /\ Len(items) > BATCH_SIZE
    /\ DecodeFails(items[1])
    /\ items[1].analysis = <<AnalysisFailed>>
    /\ CategoryOf(items[Len(items)]) = KEEP

\* the result of the task on the probed item, once it has run
Classified == IF Applied("classify") /\ ~probe.out[1].threw THEN probe.out[1].value ELSE <<>>

\* the probed item is an image that decodes
DecodableImage == probe.fn = "classify" /\ probe.item.type = "image" /\ probe.item.file.decode = "ok"

Rule1(file) ==
    \/ Includes(ToLowerCase(file.name), STR_screenshot)
    \/ Includes(ToLowerCase(file.name), STR_screen_recording)

Rule2(file) == file.size < 150 * 1024

Rule3(file) ==
    \/ 100 * file.width < 48 * file.height
    \/ 10 * file.width > 22 * file.height

Rule4(file) ==
    RLess(calculateSharpness(file.scene, AnalysisWidth, CanvasHeight(file)), <<5, 2>>)

\* C5: an image that decodes gets the result of the first rule that matches, in
\* the order filename (Discard 98), size below 150 KB of 1024 bytes (Discard 85,
\* the small-file reason), aspect ratio below 0.48 or above 2.2 (Discard 80),
\* raw sharpness below 2.5 (Discard 75), otherwise Keep 65.
C5_FirstMatchingRule ==
    DecodableImage /\ Classified # <<>> =>
        LET f == probe.item.file
            r == Classified[1]
        IN IF Rule1(f) THEN r.category = DISCARD /\ r.confidence = 98
           ELSE IF Rule2(f)
                THEN /\ r.category = DISCARD /\ r.confidence = 85
                     /\ r.reason = "Low resolution (small file size)"
           ELSE IF Rule3(f) THEN r.category = DISCARD /\ r.confidence = 80
           ELSE IF Rule4(f) THEN r.category = DISCARD /\ r.confidence = 75
           ELSE r.category = KEEP /\ r.confidence = 65

\* a small, narrow, blurry image with a screenshot name: every rule matches and
\* the first one decides
C5_Witness ==
    /\ DecodableImage /\ Classified # <<>>
    /\ Rule1(probe.item.file) /\ Rule2(probe.item.file)
    /\ Rule3(probe.item.file) /\ Rule4(probe.item.file)
    /\ Classified[1].confidence = 98

\* the probed item is a video
Video == probe.fn = "classify" /\ probe.item.type = "video"

ScreenRecording == Result(DISCARD, 85, "Screen Recording Detected", <<"Video">>)

VideoContent == Result(KEEP, 85, "Video content", <<"Video">>)

\* C6 as stated: a video whose filename contains "screen" is Discard 85 "Screen
\* Recording Detected", every other video is Keep 85 "Video content".
C6_ContainsScreen ==
    Video /\ Classified # <<>> =>
        Classified[1] = IF Includes(probe.item.name, STR_screen)
                        THEN ScreenRecording
                        ELSE VideoContent

\* C6: a video whose filename contains "screen" in any mix of upper and lower
\* case is Discard 85 "Screen Recording Detected", every other video is Keep 85
\* "Video content"; size, decoding, aspect ratio and sharpness play no part.
C6_ContainsScreenAnyCase ==
    Video /\ Classified # <<>> =>
        Classified[1] = IF Includes(ToLowerCase(probe.item.name), STR_screen)
                        THEN ScreenRecording
                        ELSE VideoContent

\* a small video with image data that does not decode, named "Screen_Rec.mov",
\* is a screen recording
C6_Witness ==
    /\ Video /\ Classified = <<ScreenRecording>>
    /\ ~Includes(probe.item.name, STR_screen)
    /\ probe.item.size < 150 * 1024
    /\ probe.item.file.decode # "ok"

ValidResult(r) ==
    /\ r.category \in {KEEP, DISCARD, UNSURE}
    /\ r.confidence \in 0..100

\* C7: every result the analysis produces has a category among Keep, Discard and
\* Unsure and an integer confidence from 0 to 100, and so has the analysis of
\* every item the App holds, whatever was analysed and overridden.
C7_ValidResults ==
    /\ Applied("classify") => ~probe.out[1].threw /\ ValidResult(Classified[1])
    /\ \A it \in HeldItems : it.analysis # <<>> => ValidResult(it.analysis[1])

\* an item in the trash carries a category the user gave it: not the one its
\* analysis produced
C7_Witness ==
    \E k \in 1..Len(trashBin) :
        /\ trashBin[k].analysis # <<>>
        /\ trashBin[k].analysis[1].category # ProcessItem(trashBin[k]).value[1].category

\* the positions at which hashes a and b of one length differ
Differing(a, b) == {i \in 1..Len(a) : a[i] # b[i]}

\* C8: for hashes a and b of one length the distance of a to itself is 0, the
\* distance of a to b is that of b to a, it is 0 exactly when a = b, and it is
\* the number of positions at which a and b differ.
C8_HammingDistance ==
    Applied("hamming") /\ Len(probe.a) = Len(probe.b) =>
        LET d == probe.out[1]
        IN /\ d.aa = 0
           /\ d.ab = d.ba
           /\ (d.ab = 0) <=> (probe.a = probe.b)
           /\ d.ab = Cardinality(Differing(probe.a, probe.b))

\* hashes that differ at exactly 3 positions, the first among them, are 3 apart
C8_Witness ==
    /\ Applied("hamming")
    /\ Cardinality(Differing(probe.a, probe.b)) = 3
    /\ 1 \in Differing(probe.a, probe.b)
    /\ probe.out[1].ab = 3

InUnitRange(r) == RLeq(RZero, r) /\ RLeq(r, ROne)

\* C9: for an image that decodes, sharpness, exposure, resolution and total of
\* the score lie in [0, 1], and total is 0.6 sharpness + 0.2 exposure + 0.2
\* resolution: five times the total is three times the sharpness plus the
\* exposure plus the resolution.
C9_QualityInUnitRange ==
    Applied("quality") /\ probe.file.decode = "ok" =>
        LET q == probe.out[1]
        IN /\ InUnitRange(q.sharpness)
           /\ InUnitRange(q.exposure)
           /\ InUnitRange(q.resolution)
           /\ InUnitRange(q.total)
           /\ RMul(q.total, <<5, 1>>)
                 = RAdd(RAdd(RMul(q.sharpness, <<3, 1>>), q.exposure), q.resolution)

\* a 12-megapixel image of full contrast: its raw sharpness is above 8, and the
\* sharpness of the score is 1, as is the resolution
C9_Witness ==
    /\ Applied("quality") /\ probe.file.decode = "ok"
    /\ RLess(<<8, 1>>, calculateSharpness(probe.file.scene, AnalysisWidth,
                                          CanvasHeight(probe.file)))
    /\ probe.out[1].sharpness = ROne
    /\ probe.out[1].resolution = ROne
    /\ RLess(probe.out[1].exposure, ROne)

\* C10 as stated: the seed at position i of the sorted candidates scans the
\* positions i+1 .. i+50. If neither the seed nor the candidate 50 positions
\* later is in the group of an earlier seed, and their hashes are within 5 bits,
\* the candidate is in the group of the seed.
C10_ScansFiftyCandidates ==
    Applied("detect") /\ ~probe.out[1].rejected =>
        LET sorted == ProcessedItems(SortByTimestamp(probe.items))
            SeedPosition(g) == CHOOSE i \in 1..Len(sorted) : sorted[i].id = g.id[2]
            TakenBefore(x, i) ==
                \E k \in 1..Len(ReturnedGroups) :
                    /\ SeedPosition(ReturnedGroups[k]) < i
                    /\ x.id \in Ids(ReturnedGroups[k].items)
        IN \A i \in 1..Len(sorted) :
              (/\ i + 50 <= Len(sorted)
               /\ ~TakenBefore(sorted[i], i)
               /\ ~TakenBefore(sorted[i + 50], i)
               /\ Cardinality(Differing(sorted[i].hash, sorted[i + 50].hash)) <= 5)
              => \E k \in 1..Len(ReturnedGroups) :
                    /\ ReturnedGroups[k].id = <<"group", sorted[i].id>>
                    /\ sorted[i + 50].id \in Ids(ReturnedGroups[k].items)

\* the candidates of the probed call that are not videos, in stable ascending
\* timestamp order (ids number the candidates in input order)
InTimeOrder ==
    LET input == SelectSeq(probe.items, LAMBDA it : it.type # "video")
        n == Len(input)
        rank == Tuple([k \in 1..n |->
                         Cardinality({j \in 1..n : EarlierInTime(input[j], input[k])})])
    IN Tuple([p \in 1..n |-> input[CHOOSE k \in 1..n : rank[k] = p]])

\* the returned groups laid over the candidates in time order: the candidates,
\* their dHashes, for every position the index of a returned group that holds
\* the candidate (0 if none does), and for every group the position of its
\* seed, its earliest member
Grouping ==
    LET order == InTimeOrder
        n == Len(order)
        ids == Tuple([k \in 1..Len(ReturnedGroups) |-> Ids(ReturnedGroups[k].items)])
        groupOf == Tuple([p \in 1..n |->
                            IF \E k \in 1..Len(ids) : order[p].id \in ids[k]
                            THEN CHOOSE k \in 1..Len(ids) : order[p].id \in ids[k]
                            ELSE 0])
    IN [order |-> order,
        hash |-> Tuple([p \in 1..n |-> computeDHash(order[p].file)]),
        groupOf |-> groupOf,
        seed |-> Tuple([k \in 1..Len(ids) |->
                          IF \E p \in 1..n : groupOf[p] = k
                          THEN CHOOSE p \in 1..n :
                                  groupOf[p] = k /\ \A q \in 1..(p - 1) : groupOf[q] # k
                          ELSE 0])]

\* position q lies in the window that the loop scans after the seed at position
\* p of n candidates
InWindow(n, p, q) == p < q /\ q <= LookAheadEnd(n, p - 1)

C12_GroupsAreDisjoint ==
    Applied("detect") /\ Cardinality(Ids(probe.items)) = Len(probe.items) =>
        /\ \A k \in 1..Len(ReturnedGroups) :
              Cardinality(Ids(ReturnedGroups[k].items)) = Len(ReturnedGroups[k].items)
        /\ \A j \in 1..Len(ReturnedGroups) : \A k \in 1..Len(ReturnedGroups) :
              j # k => Ids(ReturnedGroups[j].items) \cap Ids(ReturnedGroups[k].items) = {}

\* a member of a group, not its seed, has in its own window a candidate within 5
\* bits that is in no group: the member was not a seed again
C12_Witness ==
    /\ Applied("detect")
    /\ LET gr == Grouping
           n == Len(gr.order)
       IN \E p \in 1..n : \E q \in 1..n :
             /\ gr.groupOf[p] # 0
             /\ gr.seed[gr.groupOf[p]] < p
             /\ gr.groupOf[q] = 0
             /\ InWindow(n, p, q)
             /\ Cardinality(Differing(gr.hash[p], gr.hash[q])) <= 5

\* the candidate is an image that does not load
Undecodable(item) == item.type # "video" /\ item.file.decode # "ok"

\* C13 as stated: a detectDuplicates call is never rejected; a candidate whose
\* image does not load is in no returned group, and the groups returned are the
\* groups of the other candidates.
C13_NeverFails ==
    Applied("detect") =>
        /\ ~probe.out[1].rejected
        /\ \A k \in 1..Len(ReturnedGroups) : \A x \in Members(ReturnedGroups[k]) :
              ~Undecodable(x)
        /\ ReturnedGroups
              = detectDuplicates(SelectSeq(probe.items, LAMBDA it : ~Undecodable(it))).groups

\* the image of the probed file loads and a context is there, but the analysis
\* canvas is empty and its pixels cannot be read
PixelReadFails ==
    /\ probe.fn = "quality"
    /\ probe.file.decode = "ok"
    /\ (320 * probe.file.height) \div probe.file.width = 0
    /\ GetImageDataThrows(AnalysisWidth, CanvasHeight(probe.file))

\* C14 as stated: the score is the zero-valued one whenever the image does not
\* load, there is no context, or the pixels cannot be read inside the sharpness
\* or the exposure computation.
C14_ZeroOnAnyFailure ==
    Applied("quality") /\ (probe.file.decode # "ok" \/ PixelReadFails) =>
        probe.out[1] = ZeroQuality

\* C14: the score is the zero-valued one whenever the image does not load or
\* there is no context. When only the pixels cannot be read, the score is
\* computed from a raw sharpness of 0 and an exposure of 0.5: sharpness 0,
\* exposure 1/2, the resolution of the image's megapixels, total 0.1 + 0.2
\* resolution, and the tags "Blurry" and the megapixels.
C14_ZeroOnLoadFailure ==
    Applied("quality") =>
        /\ probe.file.decode # "ok" => probe.out[1] = ZeroQuality
        /\ PixelReadFails =>
              LET q == probe.out[1]
                  megapixels == Rat(probe.file.width * probe.file.height, 1000000)
              IN /\ q.sharpness = RZero
                 /\ q.exposure = <<1, 2>>
                 /\ InUnitRange(q.resolution)
                 /\ RMul(q.resolution, <<10, 1>>) = RSub(megapixels, <<2, 1>>)
                       \/ (q.resolution = RZero /\ RLeq(megapixels, <<2, 1>>))
                       \/ (q.resolution = ROne /\ RLeq(<<12, 1>>, megapixels))
                 /\ q.total = RAdd(<<1, 10>>, RMul(q.resolution, <<1, 5>>))
                 /\ q.details = << "Blurry", <<ToFixed1(megapixels), "MP">> >>

\* a strip of 4 megapixels whose pixels cannot be read: resolution 1/5, total 7/50
C14_Witness ==
    /\ Applied("quality")
    /\ PixelReadFails
    /\ probe.out[1].resolution = <<1, 5>>
    /\ probe.out[1].total = <<7, 50>>

\* the positions of the items in status s
InStatus(s) == {k \in 1..Len(items) : items[k].status = s}

\* the number of the batch of the item at position k of the upload
BatchOf(k) == (k - 1) \div 5

\* C15: while startProcessing runs at most 5 items are 'analyzing', and when an
\* item has left 'queued' every item of every earlier batch of 5 has finished.
C15_BatchesOfFive ==
    /\ Cardinality(InStatus("analyzing")) <= 5
    /\ \A j \in 1..Len(items) : \A k \in 1..Len(items) :
          BatchOf(j) < BatchOf(k) /\ items[k].status # "queued"
          => items[j].status \in {"done", "error"}

\* the sixth item is being analysed after the five of the first batch finished
C15_Witness ==
    /\ isProcessing
    /\ Len(items) > 5
    /\ items[6].status = "analyzing"
    /\ \A k \in 1..5 : items[k].status = "done"

\* a step in which the effect on [mode] calls startDuplicateScan: the mode becomes
\* DUPLICATES while there are no groups and no scan is running
ScanStarts ==
    /\ mode # "DUPLICATES"
    /\ mode' = "DUPLICATES"
    /\ Len(duplicateGroups) = 0
    /\ ~isScanningDuplicates

\* C16: in every step that starts a duplicate scan, isProcessing is false and no
\* item is 'queued' or 'analyzing'.
C16_ScanAfterProcessing ==
    [][ScanStarts => /\ ~isProcessing
                     /\ procPending = {}
                     /\ \A k \in 1..Len(items) :
                           items[k].status \notin {"queued", "analyzing"}]_vars

\* a scan is running over the analysed items of an upload
C16_Witness ==
    /\ scanState = "running"
    /\ isScanningDuplicates
    /\ mode = "DUPLICATES"
    /\ Len(scanItems) > 1
    /\ progress.processed = progress.total

\* C17: no member of a group that a scan returned is a video, and none carries the
\* category Discard: the members are the records as they were when the scan
\* started. A video takes no place in a window: a candidate that is a seed or in
\* no group has, among the images that follow it in its window, none within 5
\* bits that is in no group.
C17_NoVideoNoDiscard ==
    /\ \A k \in 1..Len(duplicateGroups) : \A x \in Members(duplicateGroups[k]) :
          x.type # "video" /\ CategoryOf(x) # DISCARD
    /\ Applied("detect") /\ ~probe.out[1].rejected =>
          LET gr == Grouping
              n == Len(gr.order)
          IN /\ \A k \in 1..Len(ReturnedGroups) : \A x \in Members(ReturnedGroups[k]) :
                   x.type # "video"
             /\ \A p \in 1..n : \A q \in 1..n :
                   (/\ gr.groupOf[p] = 0 \/ gr.seed[gr.groupOf[p]] = p
                    /\ InWindow(n, p, q)
                    /\ Cardinality(Differing(gr.hash[p], gr.hash[q])) <= 5)
                   => gr.groupOf[q] # 0

\* four clicks, which end in DUPLICATES only as the upload, a filter, a change of
\* category and the Duplicates button: the scan returned a group, and an image
\* that was Discard before the scan, within 5 bits of a member, is not in it
C17_Witness ==
    /\ mode = "DUPLICATES"
    /\ clicks = 4
    /\ \E k \in 1..Len(duplicateGroups) : \E x \in Members(duplicateGroups[k]) :
          \E j \in 1..Len(items) :
             /\ CategoryOf(items[j]) = DISCARD
             /\ items[j].type = "image"
             /\ items[j].id \notin Ids(duplicateGroups[k].items)
             /\ Cardinality(Differing(computeDHash(items[j].file), x.hash)) <= 5

\* C18 as stated: the bestItemId of every group the App holds is the id of one of
\* the items of that group.
C18_BestIsMember ==
    \A k \in 1..Len(duplicateGroups) :
        duplicateGroups[k].bestItemId \in Ids(duplicateGroups[k].items)

\* C19 as stated: every member of every group the App holds is one of the items
\* the App holds in items.
C19_MembersAreItems ==
    \A k \in 1..Len(duplicateGroups) :
        Ids(duplicateGroups[k].items) \subseteq Ids(items)

\* C20 as stated, in the form that a finite run refutes: while
\* isScanningDuplicates is true the scan that set it is still running, the
\* promise of detectDuplicates pending, so that it can still finish and set
\* isScanningDuplicates back to false and duplicateGroups to its result.
C20_ScanFinishes == isScanningDuplicates => scanState = "running"

\* C21 as stated: in every step items and trashBin share no id and hold no id
\* twice; an item that a step puts in the trash was in items, leaves items, and
\* carries the category it had in items just before; and Restore All puts the
\* ids of the trash back into items, each with the category it had in the trash.
C21_RestoreReturnsTrashed ==
    [][/\ Ids(items') \cap Ids(trashBin') = {}
       /\ Cardinality(Ids(items')) = Len(items')
       /\ Cardinality(Ids(trashBin')) = Len(trashBin')
       /\ Len(trashBin') > Len(trashBin) =>
             \A k \in (Len(trashBin) + 1)..Len(trashBin') :
                /\ trashBin'[k].id \notin Ids(items')
                /\ \E j \in 1..Len(items) :
                      /\ items[j].id = trashBin'[k].id
                      /\ CategoryOf(items[j]) = CategoryOf(trashBin'[k])
       /\ (mode = "TRASH" /\ mode' = "REVIEW" /\ trashBin # <<>> /\ trashBin' = <<>>) =>
             /\ Ids(items') = Ids(items) \cup Ids(trashBin)
             /\ \A k \in 1..Len(trashBin) : \E j \in 1..Len(items') :
                   /\ items'[j].id = trashBin[k].id
                   /\ CategoryOf(items'[j]) = CategoryOf(trashBin[k])]_vars

\* C22 as stated: selectedIds holds only ids of items in items, so that the count
\* of the Move to Trash button is the number of items moveToTrash moves.
C22_SelectionWithinItems ==
    /\ selectedIds \subseteq Ids(items)
    /\ Cardinality(selectedIds) = Len(SelectSeq(items, LAMBDA i : i.id \in selectedIds))

\* C23: in every step progress.processed stays or grows by one, or an upload
\* sets it to 0; it is the number of items whose task has settled and never
\* exceeds progress.total; and a step from SCANNING to REVIEW ends with
\* processed = total = the number of items, every item 'done' with an analysis.
C23_ProgressCountsEveryRecord ==
    [][/\ progress'.processed \in {progress.processed, progress.processed + 1, 0}
       /\ progress'.processed = 0 /\ progress.processed # 0 => uploads' = uploads + 1
       /\ progress'.processed <= progress'.total
       /\ mode' = "SCANNING" =>
             progress'.processed = Len(SelectSeq(items', LAMBDA i : i.status \in {"done", "error"}))
       /\ (mode = "SCANNING" /\ mode' = "REVIEW") =>
             /\ progress'.processed = progress'.total
             /\ progress'.total = Len(items')
             /\ \A k \in 1..Len(items') :
                   items'[k].status = "done" /\ items'[k].analysis # <<>>]_vars

\* an upload of more than one batch has been processed to the end, and the last
\* record, in the second batch, is an image that failed to decode
C23_Witness ==
    /\ mode = "REVIEW"
    /\ Len(items) > BATCH_SIZE
    /\ DecodeFails(items[Len(items)])
    /\ items[Len(items)].status = "done"
    /\ progress = [processed |-> Len(items), total |-> Len(items)]

=============================================================================
